---- MODULE Spec2Model ----
(***************************************************************************)
(* Cache simulation engines of "Semester 4th/oprating-system/OS project":  *)
(*   cache_simulator.py  the batch engine, policy fixed in the config      *)
(*   os.py               the engine behind the form, policy asked from a   *)
(*                       callback at every eviction                        *)
(* One run of one engine is modelled: the configuration is chosen in Init, *)
(* the constructor is an action, and every iteration of run's loop is an   *)
(* action that consumes the next address of the input.  Python lists are   *)
(* sequences; Python's 0-based positions are 1-based here, set indices     *)
(* (the values of address % n) stay 0-based and are shifted at the access. *)
(***************************************************************************)
EXTENDS Integers, Sequences, FiniteSets, TLC

MaxCap == 3      \* cache sizes 0..MaxCap
MaxAddr == 2     \* addresses 0..MaxAddr of a free input
MaxLen == 5      \* length of a free input
MaxRuns == 2     \* runs in a behaviour that runs again or builds a second engine
MaxTwinLen == 4  \* length of an input that is given to a second engine

None == -1       \* Python's None (an empty slot, no victim, no associativity)

Batch == "cache_simulator.py"
Callback == "os.py"

Direct == "Direct"
FullyAssociative == "Fully-Associative"
SetAssociative == "Set-Associative"
MappingType == {Direct, FullyAssociative, SetAssociative}

RANDOM == "Random"
FIFO == "FIFO"
LRU == "LRU"
ReplacementPolicy == {RANDOM, FIFO, LRU}
Interactive == "Interactive"   \* os.py: the callback asks the user every time

VARIABLES
  program,      \* which of the two engines runs
  config,       \* the configuration dictionary handed to the constructor
  seq_entry,    \* os.py: the text of the sequence field, split at its commas
  script,       \* the fixed input of a concrete scenario, <<>> for a free input
  sequence,     \* the addresses the loop of run has taken so far
  status,       \* "Entered" (text not parsed yet), "Rejected" (the text did not
                \* parse), "Idle", "Running", "Completed" or "Failed" (an
                \* exception left the constructor or run)
  failure,      \* the exception that ended the run, "" if none
  hits, misses,
  access_log,   \* cache_simulator.py: list of (addr, status)
  history,      \* os.py: list of 'H' / 'M'
  sets,         \* cache_simulator.py: Cache.sets, a list of CacheSet
  cache,        \* os.py: self.cache (slots, members, or a list of member lists)
  fifo_queue, lru_stack,     \* os.py, not Set-Associative
  fifo_queues, lru_stacks,   \* os.py, Set-Associative: one per set
  opLog,        \* history variable: what each completed iteration did
  results       \* history variable: the result dictionaries as they were returned

vars == <<program, config, seq_entry, script, sequence, status, failure, hits, misses,
          access_log, history, sets, cache, fifo_queue, lru_stack,
          fifo_queues, lru_stacks, opLog, results>>

Range(s) == {s[i] : i \in 1..Len(s)}

\* list.index(x): the first position of x
IndexOf(s, x) == CHOOSE i \in 1..Len(s) : s[i] = x /\ \A j \in 1..(i - 1) : s[j] # x

\* list.pop(i) seen as the remaining list
RemoveAt(s, i) == [j \in 1..(Len(s) - 1) |-> IF j < i THEN s[j] ELSE s[j + 1]]

(***************************************************************************)
(* Inputs.                                                                 *)
(***************************************************************************)
Addrs == 0..MaxAddr

\* cache_simulator.py: get_input_data
InputAccesses == <<1, 2, 3, 2, 4, 1, 5, 6, 2, 1, 7, 8>>

Cfg(size, mapping, assoc, policy) ==
  [cache_size |-> size, mapping |-> mapping, associativity |-> assoc, policy |-> policy]

\* cache_simulator.py takes cache_size, mapping and replacement_policy
BatchConfigs ==
  {Cfg(size, m, None, p) : size \in 0..MaxCap, m \in MappingType, p \in ReplacementPolicy}

\* os.py takes cache_size, mapping, associativity (Set Associative only) and,
\* at run, the callback: one that always answers the same policy, or the form's
CallbackConfigs ==
  {Cfg(size, m, None, p) : size \in 0..MaxCap, m \in {Direct, FullyAssociative},
                           p \in ReplacementPolicy \cup {Interactive}}
  \cup
  {Cfg(size, SetAssociative, a, p) : size \in 0..MaxCap, a \in 0..MaxCap,
                                     p \in ReplacementPolicy \cup {Interactive}}

FreeRuns ==
  {<<Batch, c, <<>>>> : c \in BatchConfigs} \cup {<<Callback, c, <<>>>> : c \in CallbackConfigs}

\* The concrete runs: get_input_data's own (Direct, 4 blocks), and two small
\* traces that need an address or a size outside the free inputs.
ScenarioRuns ==
  {<<Batch, Cfg(4, Direct, None, p), InputAccesses>> : p \in ReplacementPolicy}
  \cup {<<Callback, Cfg(4, Direct, None, p), InputAccesses>> : p \in ReplacementPolicy}
  \cup {<<Batch, Cfg(4, SetAssociative, None, LRU), <<1, 3, 1, 5>>>>,
        <<Callback, Cfg(4, SetAssociative, 2, LRU), <<1, 3, 1, 5>>>>,
        <<Batch, Cfg(2, FullyAssociative, None, FIFO), <<1, 2, 3, 1>>>>,
        <<Callback, Cfg(2, FullyAssociative, None, FIFO), <<1, 2, 3, 1>>>>}

\* An address list handed to run by a caller other than get_input_data
NegativeAccesses == <<-2, 1, -2>>

CallerRuns ==
  {<<Batch, Cfg(3, Direct, None, FIFO), NegativeAccesses>>,
   <<Batch, Cfg(2, FullyAssociative, None, LRU), NegativeAccesses>>}

\* os.py: texts of the sequence field, already split at the commas, each entry
\* a sequence of characters: "-2, 1,-2", " 1 ,+0", "1,x", "" and "2,,1"
SequenceTexts ==
  {<< <<"-", "2">>, <<" ", "1">>, <<"-", "2">> >>,
   << <<" ", "1", " ">>, <<"+", "0">> >>,
   << <<"1">>, <<"x">> >>,
   << <<>> >>,
   << <<"2">>, <<>>, <<"1">> >>}

\* os.py: the form's runs, the sequence still a text
EnteredRuns ==
  {<<Callback, c, t>> : c \in {Cfg(3, Direct, None, FIFO), Cfg(2, FullyAssociative, None, LRU),
                               Cfg(2, FullyAssociative, None, Interactive)},
                        t \in SequenceTexts}

\* str.strip(): the text without its leading and trailing blanks
RECURSIVE lstrip(_)
lstrip(x) == IF x # <<>> /\ Head(x) = " " THEN lstrip(Tail(x)) ELSE x

RECURSIVE rstrip(_)
rstrip(x) == IF x # <<>> /\ x[Len(x)] = " " THEN rstrip(SubSeq(x, 1, Len(x) - 1)) ELSE x

strip(x) == rstrip(lstrip(x))

DecimalDigits == <<"0", "1", "2", "3", "4", "5", "6", "7", "8", "9">>

\* The value of a string of decimal digits
RECURSIVE DigitsValue(_)
DigitsValue(d) ==
  IF d = <<>> THEN 0
  ELSE 10 * DigitsValue(SubSeq(d, 1, Len(d) - 1)) + (IndexOf(DecimalDigits, d[Len(d)]) - 1)

\* int(x): an optional sign and at least one digit, blanks around them ignored;
\* anything else raises ValueError
int(x) ==
  LET t == strip(x)
      signed == t # <<>> /\ Head(t) \in {"-", "+"}
      d == IF signed THEN Tail(t) ELSE t
  IN IF d = <<>> \/ \E i \in 1..Len(d) : d[i] \notin Range(DecimalDigits)
     THEN [error |-> "ValueError", value |-> None]
     ELSE [error |-> "",
           value |-> IF signed /\ Head(t) = "-" THEN 0 - DigitsValue(d) ELSE DigitsValue(d)]

\* The addresses the loop may take next
NextAddresses ==
  IF script = <<>>
  THEN IF Len(sequence) < MaxLen THEN Addrs ELSE {}
  ELSE IF Len(sequence) < Len(script) THEN {script[Len(sequence) + 1]} ELSE {}

\* The loop has no address left (a free input may end anywhere)
InputExhausted == script = <<>> \/ Len(sequence) = Len(script)

Init ==
  /\ \/ \E r \in FreeRuns \cup ScenarioRuns \cup CallerRuns :
          /\ program = r[1]
          /\ config = r[2]
          /\ script = r[3]
          /\ seq_entry = <<>>
          /\ status = "Idle"
     \/ \E r \in EnteredRuns :
          /\ program = r[1]
          /\ config = r[2]
          /\ script = <<>>
          /\ seq_entry = r[3]
          /\ status = "Entered"
  /\ sequence = <<>>
  /\ failure = ""
  /\ hits = 0
  /\ misses = 0
  /\ access_log = <<>>
  /\ history = <<>>
  /\ sets = <<>>
  /\ cache = <<>>
  /\ fifo_queue = <<>>
  /\ lru_stack = <<>>
  /\ fifo_queues = <<>>
  /\ lru_stacks = <<>>
  /\ opLog = <<>>
  /\ results = <<>>

\* One entry of opLog: the address, its set index, the outcome, the members of
\* the set before the step, whether the set was full, the policy consulted for
\* the eviction ("" if none was) and the address removed (None if none was).
Op(addr, set, outcome, before, full, policy, victim) ==
  [addr |-> addr, set |-> set, outcome |-> outcome, before |-> before,
   full |-> full, policy |-> policy, victim |-> victim]

(***************************************************************************)
(* cache_simulator.py                                                      *)
(***************************************************************************)
CacheSet(associativity) == [blocks |-> <<>>, associativity |-> associativity]

is_full(cache_set) == Len(cache_set.blocks) >= cache_set.associativity

\* TRUE when a block is returned, FALSE for None
find_block(cache_set, tag) == tag \in Range(cache_set.blocks)

\* Mutant of remove_block: blocks.pop() takes the newest block
remove_block_Last(cache_set) ==
  [block |-> cache_set.blocks[Len(cache_set.blocks)],
   cache_set |-> [cache_set EXCEPT !.blocks = SubSeq(@, 1, Len(@) - 1)]]

\* blocks.pop(0): the block returned and the set as it is left; raises
\* IndexError on an empty list (see CanPop)
remove_block(cache_set) ==
  [block |-> Head(cache_set.blocks), cache_set |-> [cache_set EXCEPT !.blocks = Tail(@)]]

CanPop(cache_set) == cache_set.blocks # <<>>

add_block(cache_set, tag) == [cache_set EXCEPT !.blocks = Append(@, tag)]

\* Mutant of apply_lru_policy: the block is removed and not appended again
apply_lru_policy_Drop(cache_set, tag) ==
  IF tag \in Range(cache_set.blocks)
  THEN [cache_set EXCEPT !.blocks = RemoveAt(@, IndexOf(@, tag))]
  ELSE cache_set

apply_lru_policy(cache_set, tag) ==
  IF tag \in Range(cache_set.blocks)
  THEN [cache_set EXCEPT !.blocks = Append(RemoveAt(@, IndexOf(@, tag)), tag)]
  ELSE cache_set

apply_fifo_policy(cache_set) == remove_block(cache_set)

\* Mutant of LogAccess: only the misses are logged
LogAccess_MissesOnly(log, addr, st) == IF st = "HIT" THEN log ELSE Append(log, <<addr, st>>)

\* self.access_log.append((addr, status))
LogAccess(log, addr, st) == Append(log, <<addr, st>>)

\* Whether the miss branch removes a block: only FIFO and LRU have a branch
Evicts(cache_set, policy) == is_full(cache_set) /\ policy \in {FIFO, LRU}

\* Cache.__init__ as called from CacheSimulator.__init__
Cache_init ==
  /\ program = Batch
  /\ status = "Idle"
  /\ sets' = IF config.mapping = Direct
             THEN [i \in 1..config.cache_size |-> CacheSet(1)]
             ELSE IF config.mapping = FullyAssociative
             THEN <<CacheSet(config.cache_size)>>
             ELSE [i \in 1..2 |-> CacheSet(config.cache_size \div 2)]
  /\ status' = "Running"
  /\ UNCHANGED <<seq_entry, results, program, config, script, sequence, failure, hits, misses, access_log,
                 history, cache, fifo_queue, lru_stack, fifo_queues, lru_stacks, opLog>>

\* address % 0 raises ZeroDivisionError
SetIndexRaises == config.mapping = Direct /\ config.cache_size = 0

\* Mutant of get_set_index: the Direct branch is not taken
get_set_index_NoDirect(address) ==
  IF config.mapping = SetAssociative THEN address % Len(sets) ELSE 0

\* Mutant of get_set_index: the Set-Associative branch is not taken
get_set_index_NoSets(address) ==
  IF config.mapping = Direct THEN address % config.cache_size ELSE 0

get_set_index(address) ==
  IF config.mapping = Direct THEN address % config.cache_size
  ELSE IF config.mapping = SetAssociative THEN address % Len(sets)
  ELSE 0

\* One iteration of the loop of CacheSimulator.run
run_step ==
  /\ program = Batch
  /\ status = "Running"
  /\ \E addr \in NextAddresses :
       /\ sequence' = Append(sequence, addr)
       /\ IF SetIndexRaises
          THEN /\ status' = "Failed"
               /\ failure' = "ZeroDivisionError"
               /\ UNCHANGED <<hits, misses, access_log, sets, opLog>>
          ELSE LET set_index == get_set_index(addr)
                   cache_set == sets[set_index + 1]
                   policy == config.policy
               IN IF find_block(cache_set, addr)
                  THEN /\ hits' = hits + 1
                       /\ sets' = IF policy = LRU
                                  THEN [sets EXCEPT ![set_index + 1] = apply_lru_policy(@, addr)]
                                  ELSE sets
                       /\ access_log' = LogAccess(access_log, addr, "HIT")
                       /\ opLog' = Append(opLog, Op(addr, set_index, "HIT", cache_set.blocks,
                                                    is_full(cache_set), "", None))
                       /\ UNCHANGED <<misses, status, failure>>
                  ELSE /\ misses' = misses + 1
                       /\ IF Evicts(cache_set, policy) /\ ~CanPop(cache_set)
                          THEN /\ status' = "Failed"
                               /\ failure' = "IndexError"
                               /\ UNCHANGED <<hits, access_log, sets, opLog>>
                          ELSE LET popped == IF policy = FIFO
                                             THEN apply_fifo_policy(cache_set)
                                             ELSE remove_block(cache_set)
                                   evicted == IF Evicts(cache_set, policy)
                                              THEN popped.cache_set ELSE cache_set
                                   victim == IF Evicts(cache_set, policy)
                                             THEN popped.block ELSE None
                               IN /\ sets' = [sets EXCEPT ![set_index + 1] = add_block(evicted, addr)]
                                  /\ access_log' = LogAccess(access_log, addr, "MISS")
                                  /\ opLog' = Append(opLog,
                                       Op(addr, set_index, "MISS", cache_set.blocks,
                                          is_full(cache_set),
                                          IF is_full(cache_set) THEN policy ELSE "", victim))
                                  /\ UNCHANGED <<hits, status, failure>>
  /\ UNCHANGED <<seq_entry, results, program, config, script, history, cache, fifo_queue, lru_stack,
                 fifo_queues, lru_stacks>>

(***************************************************************************)
(* os.py                                                                   *)
(***************************************************************************)
num_sets == config.cache_size \div config.associativity

\* CacheSimulator.__init__; cache_size // 0 raises ZeroDivisionError
CacheSimulator_init ==
  /\ program = Callback
  /\ status = "Idle"
  /\ IF config.mapping = SetAssociative
     THEN IF config.associativity = 0
          THEN /\ status' = "Failed"
               /\ failure' = "ZeroDivisionError"
               /\ UNCHANGED <<cache, fifo_queues, lru_stacks>>
          ELSE /\ cache' = [i \in 1..num_sets |-> <<>>]
               /\ fifo_queues' = [i \in 1..num_sets |-> <<>>]
               /\ lru_stacks' = [i \in 1..num_sets |-> <<>>]
               /\ status' = "Running"
               /\ UNCHANGED failure
     ELSE /\ status' = "Running"
          /\ UNCHANGED <<cache, fifo_queues, lru_stacks, failure>>
  /\ UNCHANGED <<seq_entry, results, program, config, script, sequence, hits, misses, access_log, history,
                 sets, fifo_queue, lru_stack, opLog>>

\* The policies ask_policy_callback may answer at one eviction
ask_policy_callback ==
  IF config.policy = Interactive THEN ReplacementPolicy ELSE {config.policy}

Evict(index, fifo, lru, error) == [index |-> index, fifo |-> fifo, lru |-> lru, error |-> error]

\* fifo.pop(0) / lru.pop(0) after the refill, then cache_set.index(victim)
PopVictim(cache_set, queue) ==
  LET filled == IF queue = <<>> THEN cache_set ELSE queue
  IN IF filled = <<>>
     THEN [index |-> None, queue |-> filled, error |-> "IndexError"]
     ELSE IF Head(filled) \in Range(cache_set)
     THEN [index |-> IndexOf(cache_set, Head(filled)), queue |-> Tail(filled), error |-> ""]
     ELSE [index |-> None, queue |-> Tail(filled), error |-> "ValueError"]

\* Mutant of _get_eviction_index: random.randint(0, len(cache_set)) may draw one
\* position past the end
_get_eviction_index_PastEnd(policy, cache_set, fifo, lru) ==
  IF policy = RANDOM
  THEN {Evict(i, fifo, lru, "") : i \in 1..(Len(cache_set) + 1)}
  ELSE IF policy = FIFO
  THEN LET r == PopVictim(cache_set, fifo) IN {Evict(r.index, r.queue, lru, r.error)}
  ELSE LET r == PopVictim(cache_set, lru) IN {Evict(r.index, fifo, r.queue, r.error)}

\* Mutant of _get_eviction_index: FIFO falls into the Random branch
_get_eviction_index_FifoDraws(policy, cache_set, fifo, lru) ==
  IF policy \in {RANDOM, FIFO}
  THEN IF cache_set = <<>>
       THEN {Evict(None, fifo, lru, "ValueError")}
       ELSE {Evict(i, fifo, lru, "") : i \in 1..Len(cache_set)}
  ELSE LET r == PopVictim(cache_set, lru) IN {Evict(r.index, fifo, r.queue, r.error)}

\* The outcomes of _get_eviction_index: the position chosen, the two lists as it
\* leaves them, and the exception it raises, if any.  random.randint(0, -1) raises
\* ValueError.
_get_eviction_index(policy, cache_set, fifo, lru) ==
  IF policy = RANDOM
  THEN IF cache_set = <<>>
       THEN {Evict(None, fifo, lru, "ValueError")}
       ELSE {Evict(i, fifo, lru, "") : i \in 1..Len(cache_set)}
  ELSE IF policy = FIFO
  THEN LET r == PopVictim(cache_set, fifo) IN {Evict(r.index, r.queue, lru, r.error)}
  ELSE IF policy = LRU
  THEN LET r == PopVictim(cache_set, lru) IN {Evict(r.index, fifo, r.queue, r.error)}
  ELSE {Evict(1, fifo, lru, "")}

\* The exception of the eviction r in cache_set, "" if none: the one raised by
\* _get_eviction_index, or the IndexError of cache_set[evict_index] = address
\* for a position outside the list
EvictionError(r, cache_set) ==
  IF r.error # "" THEN r.error
  ELSE IF r.index \notin 1..Len(cache_set) THEN "IndexError"
  ELSE ""

\* self.cache.extend([None] * (cache_size - len(cache)))
ExtendSlots(slots, size) ==
  IF Len(slots) < size THEN slots \o [i \in 1..(size - Len(slots)) |-> None] ELSE slots

Resident(slot) == IF slot = None THEN <<>> ELSE <<slot>>

_direct_mapping ==
  /\ program = Callback
  /\ status = "Running"
  /\ config.mapping = Direct
  /\ \E address \in NextAddresses :
       /\ sequence' = Append(sequence, address)
       /\ IF config.cache_size = 0
          THEN /\ status' = "Failed"
               /\ failure' = "ZeroDivisionError"
               /\ UNCHANGED <<hits, misses, history, cache, opLog>>
          ELSE LET slots == ExtendSlots(cache, config.cache_size)
                   index == address % config.cache_size
               IN IF slots[index + 1] = address
                  THEN /\ hits' = hits + 1
                       /\ history' = Append(history, "H")
                       /\ cache' = slots
                       /\ opLog' = Append(opLog, Op(address, index, "HIT",
                                                    Resident(slots[index + 1]), TRUE, "", None))
                       /\ UNCHANGED <<misses, status, failure>>
                  ELSE /\ cache' = [slots EXCEPT ![index + 1] = address]
                       /\ misses' = misses + 1
                       /\ history' = Append(history, "M")
                       /\ opLog' = Append(opLog, Op(address, index, "MISS",
                                                    Resident(slots[index + 1]),
                                                    slots[index + 1] # None, "",
                                                    slots[index + 1]))
                       /\ UNCHANGED <<hits, status, failure>>
  /\ UNCHANGED <<seq_entry, results, program, config, script, access_log, sets, fifo_queue, lru_stack,
                 fifo_queues, lru_stacks>>

_fully_associative ==
  /\ program = Callback
  /\ status = "Running"
  /\ config.mapping = FullyAssociative
  /\ \E address \in NextAddresses :
       /\ sequence' = Append(sequence, address)
       /\ IF address \in Range(cache)
          THEN /\ hits' = hits + 1
               /\ history' = Append(history, "H")
               /\ opLog' = Append(opLog, Op(address, 0, "HIT", cache,
                                            Len(cache) >= config.cache_size, "", None))
               /\ UNCHANGED <<misses, cache, fifo_queue, lru_stack, status, failure>>
          ELSE /\ misses' = misses + 1
               /\ history' = Append(history, "M")
               /\ UNCHANGED hits
               /\ IF Len(cache) < config.cache_size
                  THEN /\ cache' = Append(cache, address)
                       /\ opLog' = Append(opLog, Op(address, 0, "MISS", cache, FALSE, "", None))
                       /\ UNCHANGED <<fifo_queue, lru_stack, status, failure>>
                  ELSE \E policy \in ask_policy_callback :
                       \E r \in _get_eviction_index(policy, cache, fifo_queue, lru_stack) :
                         /\ fifo_queue' = r.fifo
                         /\ lru_stack' = r.lru
                         /\ IF EvictionError(r, cache) # ""
                            THEN /\ status' = "Failed"
                                 /\ failure' = EvictionError(r, cache)
                                 /\ UNCHANGED <<cache, opLog>>
                            ELSE /\ cache' = [cache EXCEPT ![r.index] = address]
                                 /\ opLog' = Append(opLog, Op(address, 0, "MISS", cache, TRUE,
                                                              policy, cache[r.index]))
                                 /\ UNCHANGED <<status, failure>>
  /\ UNCHANGED <<seq_entry, results, program, config, script, access_log, sets, fifo_queues, lru_stacks>>

_set_associative ==
  /\ program = Callback
  /\ status = "Running"
  /\ config.mapping = SetAssociative
  /\ \E address \in NextAddresses :
       /\ sequence' = Append(sequence, address)
       /\ IF num_sets = 0
          THEN /\ status' = "Failed"
               /\ failure' = "ZeroDivisionError"
               /\ UNCHANGED <<hits, misses, history, cache, fifo_queues, lru_stacks, opLog>>
          ELSE LET set_index == address % num_sets
                   cache_set == cache[set_index + 1]
               IN IF address \in Range(cache_set)
                  THEN /\ hits' = hits + 1
                       /\ history' = Append(history, "H")
                       /\ opLog' = Append(opLog, Op(address, set_index, "HIT", cache_set,
                                                    Len(cache_set) >= config.associativity,
                                                    "", None))
                       /\ UNCHANGED <<misses, cache, fifo_queues, lru_stacks, status, failure>>
                  ELSE /\ misses' = misses + 1
                       /\ history' = Append(history, "M")
                       /\ UNCHANGED hits
                       /\ IF Len(cache_set) < config.associativity
                          THEN /\ cache' = [cache EXCEPT ![set_index + 1] = Append(@, address)]
                               /\ opLog' = Append(opLog, Op(address, set_index, "MISS",
                                                            cache_set, FALSE, "", None))
                               /\ UNCHANGED <<fifo_queues, lru_stacks, status, failure>>
                          ELSE \E policy \in ask_policy_callback :
                               \E r \in _get_eviction_index(policy, cache_set,
                                                            fifo_queues[set_index + 1],
                                                            lru_stacks[set_index + 1]) :
                                 /\ fifo_queues' = [fifo_queues EXCEPT ![set_index + 1] = r.fifo]
                                 /\ lru_stacks' = [lru_stacks EXCEPT ![set_index + 1] = r.lru]
                                 /\ IF EvictionError(r, cache_set) # ""
                                    THEN /\ status' = "Failed"
                                         /\ failure' = EvictionError(r, cache_set)
                                         /\ UNCHANGED <<cache, opLog>>
                                    ELSE /\ cache' = [cache EXCEPT ![set_index + 1][r.index] = address]
                                         /\ opLog' = Append(opLog,
                                              Op(address, set_index, "MISS", cache_set, TRUE,
                                                 policy, cache_set[r.index]))
                                         /\ UNCHANGED <<status, failure>>
  /\ UNCHANGED <<seq_entry, results, program, config, script, access_log, sets, fifo_queue, lru_stack>>

\* The set indices of the constructed cache, 0-based as in the code
SetIndices ==
  IF program = Batch THEN 0..(Len(sets) - 1)
  ELSE IF config.mapping = FullyAssociative THEN {0}
  ELSE 0..(Len(cache) - 1)

\* The resident addresses of set i, in the order the code keeps them
Members(i) ==
  IF program = Batch THEN sets[i + 1].blocks
  ELSE IF config.mapping = FullyAssociative THEN cache
  ELSE IF config.mapping = Direct THEN Resident(cache[i + 1])
  ELSE cache[i + 1]

\* The outcomes of the trace, in the words of cache_simulator.py
Trace ==
  IF program = Batch THEN [i \in 1..Len(access_log) |-> access_log[i][2]]
  ELSE [i \in 1..Len(history) |-> IF history[i] = "H" THEN "HIT" ELSE "MISS"]

\* The dictionary run returns, as it is at the return: hits, misses, total and
\* log (cache_simulator.py), hits, misses, cache, history and sequence (os.py).
\* log, cache, history and sequence are the engine's own lists, not copies.
\* program, trace and members are for the properties.
Result ==
  [program |-> program, hits |-> hits, misses |-> misses, total |-> Len(sequence),
   log |-> access_log, cache |-> cache, history |-> history, sequence |-> sequence,
   trace |-> Trace, members |-> [i \in SetIndices |-> Range(Members(i))]]

\* The loop of run is over and the result dictionary is returned
run_return ==
  /\ status = "Running"
  /\ InputExhausted
  /\ status' = "Completed"
  /\ results' = Append(results, Result)
  /\ UNCHANGED <<seq_entry, program, config, script, sequence, failure, hits, misses, access_log,
                 history, sets, cache, fifo_queue, lru_stack, fifo_queues, lru_stacks, opLog>>

\* run is called once more on the same engine, with the same addresses
\* (os.py iterates self.sequence): nothing is reset
run_again ==
  /\ status = "Completed"
  /\ Len(results) < MaxRuns
  /\ sequence # <<>>
  /\ status' = "Running"
  /\ script' = sequence
  /\ sequence' = <<>>
  /\ UNCHANGED <<seq_entry, results, program, config, failure, hits, misses, access_log, history,
                 sets, cache, fifo_queue, lru_stack, fifo_queues, lru_stacks, opLog>>

\* The configuration of engine p for the same cache as the current one; two
\* sets for Set-Associative, as cache_simulator.py always has
SameCache(p) ==
  IF p = program THEN {config}
  ELSE IF config.policy = Interactive THEN {}
  ELSE IF config.mapping # SetAssociative THEN {config}
  ELSE IF p = Callback
  THEN IF config.cache_size % 2 = 0
       THEN {[config EXCEPT !.associativity = config.cache_size \div 2]} ELSE {}
  ELSE IF 2 * config.associativity = config.cache_size
       THEN {[config EXCEPT !.associativity = None]} ELSE {}

\* A second engine, of either program, is constructed for the same cache and
\* fed the same addresses
new_engine ==
  /\ status = "Completed"
  /\ Len(results) < MaxRuns
  /\ sequence # <<>>
  /\ Len(sequence) <= MaxTwinLen
  /\ \E p \in {Batch, Callback} :
       \E c \in SameCache(p) :
         /\ program' = p
         /\ config' = c
  /\ script' = sequence
  /\ sequence' = <<>>
  /\ status' = "Idle"
  /\ failure' = ""
  /\ hits' = 0
  /\ misses' = 0
  /\ access_log' = <<>>
  /\ history' = <<>>
  /\ sets' = <<>>
  /\ cache' = <<>>
  /\ fifo_queue' = <<>>
  /\ lru_stack' = <<>>
  /\ fifo_queues' = <<>>
  /\ lru_stacks' = <<>>
  /\ opLog' = <<>>
  /\ UNCHANGED <<seq_entry, results>>

(***************************************************************************)
(* os.py: CacheSimGUI.run_simulation up to the construction of the engine: *)
(* every entry of the sequence text goes through int(x.strip()); a         *)
(* ValueError is caught by the handler and shown, and no engine is built.  *)
(***************************************************************************)
run_simulation ==
  /\ status = "Entered"
  /\ LET parsed == [i \in 1..Len(seq_entry) |-> int(strip(seq_entry[i]))] IN
       IF \E i \in 1..Len(parsed) : parsed[i].error # ""
       THEN /\ status' = "Rejected"
            /\ failure' = "ValueError"
            /\ script' = script
       ELSE /\ status' = "Idle"
            /\ failure' = failure
            /\ script' = [i \in 1..Len(parsed) |-> parsed[i].value]
  /\ UNCHANGED <<seq_entry, results, program, config, sequence, hits, misses, access_log,
                 history, sets, cache, fifo_queue, lru_stack, fifo_queues, lru_stacks, opLog>>

Next ==
  \/ run_simulation
  \/ Cache_init
  \/ run_step
  \/ CacheSimulator_init
  \/ _direct_mapping
  \/ _fully_associative
  \/ _set_associative
  \/ run_return

Spec == Init /\ [][Next]_vars

\* Engines with a policy fixed for the run
InitFixed == Init /\ config.policy \in ReplacementPolicy

\* One engine whose run may be called again
SpecRerun == InitFixed /\ [][Next \/ run_again]_vars

\* Engines whose policy is LRU or FIFO throughout
InitDeterministic == Init /\ config.policy \in {LRU, FIFO}

\* A second engine for the same cache and the same addresses
SpecTwin == InitDeterministic /\ [][Next \/ new_engine]_vars

(***************************************************************************)
(* Views of the state shared by the properties.                            *)
(***************************************************************************)
\* A configuration the validation rules reject: a size below 1, or, where the
\* associativity is an input, one outside 1..size or not dividing it
InvalidConfig ==
  \/ config.cache_size < 1
  \/ /\ program = Callback
     /\ config.mapping = SetAssociative
     /\ \/ config.associativity < 1
        \/ config.associativity > config.cache_size
        \/ config.cache_size % config.associativity # 0

ValidConfig == ~InvalidConfig

\* The number of blocks set i may hold
Associativity(i) ==
  IF program = Batch THEN sets[i + 1].associativity
  ELSE IF config.mapping = Direct THEN 1
  ELSE IF config.mapping = FullyAssociative THEN config.cache_size
  ELSE config.associativity

Steps == 1..Len(opLog)

Evictions == {i \in Steps : opLog[i].victim # None}

NoRepeats(s) == \A i, j \in 1..Len(s) : i # j => s[i] # s[j]

IsPrefix(s, t) == Len(s) <= Len(t) /\ \A i \in 1..Len(s) : s[i] = t[i]

(***************************************************************************)
(* C1  When run returns, hits + misses is the length of the input, and the *)
(* trace (access_log, history) has one entry per input address, in input   *)
(* order.                                                                  *)
(***************************************************************************)
C1_CountsAndTrace ==
  status = "Completed" =>
    /\ hits + misses = Len(sequence)
    /\ program = Batch =>
         /\ Len(access_log) = Len(sequence)
         /\ \A i \in 1..Len(access_log) : access_log[i][1] = sequence[i]
         /\ Cardinality({i \in 1..Len(access_log) : access_log[i][2] = "HIT"}) = hits
    /\ program = Callback =>
         /\ Len(history) = Len(sequence)
         /\ Cardinality({i \in 1..Len(history) : history[i] = "H"}) = hits

C1_Witness ==
  /\ status = "Completed"
  /\ program = Batch
  /\ Len(sequence) >= 4
  /\ hits >= 1
  /\ misses >= 2
  /\ Evictions # {}

(***************************************************************************)
(* C2  In every reachable state of a valid configuration, whatever the     *)
(* mapping and the policy, each set (of associativity 1 or more) holds at  *)
(* most its associativity of addresses: a miss into a full set never makes *)
(* the set grow.                                                           *)
(***************************************************************************)
C2_SetsBounded ==
  ValidConfig =>
    \A i \in SetIndices : Associativity(i) >= 1 => Len(Members(i)) <= Associativity(i)

(***************************************************************************)
(* C3  Direct mapping with 4 blocks on get_input_data's accesses           *)
(* [1,2,3,2,4,1,5,6,2,1,7,8].  As claimed: 1 hit and 11 misses.  As the    *)
(* per-address step gives it (policy LRU or FIFO in cache_simulator.py, no *)
(* policy consulted in os.py): 2 hits, the second access to 2 and the      *)
(* second access to 1, and 10 misses.                                      *)
(***************************************************************************)
C3_Scenario ==
  /\ status = "Completed"
  /\ config.mapping = Direct
  /\ config.cache_size = 4
  /\ config.policy \in {LRU, FIFO}
  /\ sequence = InputAccesses

C3_Original == C3_Scenario => hits = 1 /\ misses = 11

C3_DirectScenario == C3_Scenario => hits = 2 /\ misses = 10

C3_Witness == C3_Scenario /\ program = Batch /\ config.policy = LRU

(***************************************************************************)
(* C4  Under LRU, the address evicted by a miss into a full set is the     *)
(* member of the set whose latest access (insertion or hit) is the oldest. *)
(* On [1,3,1,5] with 4 blocks in sets of 2, the miss of 5 evicts 3 and     *)
(* set 1 ends holding 1 and 5.                                             *)
(***************************************************************************)
\* The step before step i that last accessed address m
LastAccess(i, m) ==
  LET S == {j \in 1..(i - 1) : opLog[j].addr = m}
  IN CHOOSE j \in S : \A k \in S : k <= j

\* The member of the set of step i with the oldest latest access
LeastRecentlyUsed(i) ==
  CHOOSE m \in Range(opLog[i].before) :
    \A n \in Range(opLog[i].before) : LastAccess(i, m) <= LastAccess(i, n)

C4_LRUVictim ==
  /\ \A i \in Evictions :
       opLog[i].policy = LRU => opLog[i].victim = LeastRecentlyUsed(i)
  /\ ( /\ status = "Completed"
       /\ sequence = <<1, 3, 1, 5>>
       /\ config.mapping = SetAssociative
       /\ config.cache_size = 4
       /\ config.policy = LRU
       /\ Associativity(1) = 2 )
     => opLog[4].victim = 3 /\ Range(Members(1)) = {1, 5}

(***************************************************************************)
(* C5  Under LRU, after a HIT on x, the next eviction from the set of x    *)
(* does not select x.  Stated in the cases where least-recently-used       *)
(* itself protects x: the set holds another member to select, and nothing  *)
(* else touches the set between the HIT and the eviction (a miss that      *)
(* fills the set after the HIT brings a member that is more recent than    *)
(* x).                                                                     *)
(***************************************************************************)
\* Step j is a HIT, and step i is the next access to the same set
NextEvictionAfterHit(j, i) ==
  /\ j < i
  /\ opLog[j].outcome = "HIT"
  /\ opLog[j].set = opLog[i].set
  /\ \A k \in (j + 1)..(i - 1) : opLog[k].set # opLog[i].set

C5_HitProtects ==
  \A i \in Evictions :
    (opLog[i].policy = LRU /\ Len(opLog[i].before) >= 2) =>
      \A j \in Steps : NextEvictionAfterHit(j, i) => opLog[i].victim # opLog[j].addr

(***************************************************************************)
(* C6  Under FIFO (the fixed policy of the run), the addresses evicted     *)
(* from a set leave in the order in which they were inserted, whatever     *)
(* hits come in between.  Fully associative with 2 blocks on [1,2,3,1]     *)
(* evicts 1, then 2, and ends holding 3 and 1.                             *)
(***************************************************************************)
MissIn(s, o) == o.set = s /\ o.outcome = "MISS"

EvictionIn(s, o) == o.set = s /\ o.victim # None

\* The addresses inserted into set s, in order
Inserted(s) ==
  LET Test(o) == MissIn(s, o)
      sel == SelectSeq(opLog, Test)
  IN [i \in 1..Len(sel) |-> sel[i].addr]

\* The addresses evicted from set s, in order
Evicted(s) ==
  LET Test(o) == EvictionIn(s, o)
      sel == SelectSeq(opLog, Test)
  IN [i \in 1..Len(sel) |-> sel[i].victim]

C6_FIFOOrder ==
  config.policy = FIFO =>
    /\ \A i \in Steps : IsPrefix(Evicted(opLog[i].set), Inserted(opLog[i].set))
    /\ ( /\ status = "Completed"
         /\ sequence = <<1, 2, 3, 1>>
         /\ config.mapping = FullyAssociative
         /\ config.cache_size = 2 )
       => Evicted(0) = <<1, 2>> /\ Range(Members(0)) = {3, 1}

\* Two evictions from a set of two blocks with a hit in between
C6_Witness ==
  /\ config.policy = FIFO
  /\ config.mapping = FullyAssociative
  /\ config.cache_size = 2
  /\ Len(Evicted(0)) >= 2
  /\ \E j \in Steps : opLog[j].outcome = "HIT" /\ \E i \in Evictions : i < j

(***************************************************************************)
(* C7  With a callback that may answer any of RANDOM, FIFO, LRU at each    *)
(* eviction, the run of a valid configuration never fails: every victim is *)
(* a member of the set.                                                    *)
(***************************************************************************)
C7_NoInternalFailure ==
  (program = Callback /\ ValidConfig) => status # "Failed"

(***************************************************************************)
(* C8  Direct mapping, whatever the policy: an access to a is a HIT        *)
(* exactly when the block resident in slot a mod cache_size is a, and a    *)
(* MISS leaves a as the block of that slot.                                *)
(***************************************************************************)
C8_DirectSlot ==
  (config.mapping = Direct /\ ValidConfig) =>
    \A i \in Steps :
      /\ opLog[i].set = opLog[i].addr % config.cache_size
      /\ opLog[i].outcome = "HIT" <=> opLog[i].before = <<opLog[i].addr>>
      /\ i = Len(opLog) => Members(opLog[i].set) = <<opLog[i].addr>>

(***************************************************************************)
(* C9  Fully associative with C blocks on an input without repeats: each   *)
(* of the first C addresses is a MISS inserted without eviction, and the   *)
(* (C+1)th evicts exactly one address.                                     *)
(***************************************************************************)
C9_FillThenEvict ==
  (config.mapping = FullyAssociative /\ ValidConfig /\ NoRepeats(sequence)) =>
    /\ \A i \in Steps :
         /\ i <= config.cache_size =>
              opLog[i].outcome = "MISS" /\ opLog[i].victim = None /\ ~opLog[i].full
         /\ i = config.cache_size + 1 =>
              opLog[i].outcome = "MISS" /\ opLog[i].victim # None
    /\ (status # "Idle" /\ Len(opLog) <= config.cache_size + 1) =>
         Len(Members(0)) = IF Len(opLog) <= config.cache_size
                           THEN Len(opLog) ELSE config.cache_size

(***************************************************************************)
(* C10  An invalid configuration is rejected before any address is         *)
(* processed: no counter, trace entry or set is ever modified for it.      *)
(***************************************************************************)
C10_InvalidConfigUntouched ==
  InvalidConfig =>
    /\ status \in {"Idle", "Failed"} \/ sequence = <<>>
    /\ hits = 0
    /\ misses = 0
    /\ access_log = <<>>
    /\ history = <<>>
    /\ \A i \in SetIndices : Members(i) = <<>>

(***************************************************************************)
(* C11  A valid configuration (cache_size 1 or more, Set-Associative with  *)
(* 1 block or an odd number of blocks included) with a fixed policy: run   *)
(* processes every address and returns; no step fails once the run has     *)
(* started.                                                                *)
(***************************************************************************)
C11_RunNeverFails ==
  (ValidConfig /\ config.policy \in ReplacementPolicy) =>
    /\ status # "Failed"
    /\ status \in {"Running", "Completed"} => Len(opLog) = Len(sequence)

(***************************************************************************)
(* C12  Under Random, whatever the draw, the victim of an eviction is an   *)
(* address resident in the set evicted from: the draw is never a position  *)
(* outside the set, so a run whose callback answers Random never fails.    *)
(***************************************************************************)
C12_RandomVictimResident ==
  /\ \A i \in Evictions :
       opLog[i].policy = RANDOM =>
         /\ opLog[i].victim \in Range(opLog[i].before)
         /\ opLog[i].victim # opLog[i].addr
  /\ (program = Callback /\ config.policy = RANDOM /\ ValidConfig) => status # "Failed"

\* A draw that is not the first position of a set of two or more
C12_Witness ==
  \E i \in Evictions :
    /\ opLog[i].policy = RANDOM
    /\ Len(opLog[i].before) >= 2
    /\ opLog[i].victim = opLog[i].before[2]

(***************************************************************************)
(* C13  Two engines of the same program, constructed independently with    *)
(* the same configuration and a fixed LRU or FIFO policy and fed the same  *)
(* addresses, return the same trace, the same hit count and the same miss  *)
(* count.  (SpecTwin)                                                      *)
(***************************************************************************)
C13_SameRunSameResult ==
  config.policy \in {LRU, FIFO} =>
    \A j, k \in 1..Len(results) :
      (results[j].program = results[k].program /\ results[j].sequence = results[k].sequence) =>
        /\ results[j].trace = results[k].trace
        /\ results[j].hits = results[k].hits
        /\ results[j].misses = results[k].misses

\* Two results of os.py engines under FIFO with evictions and a hit
C13_Witness ==
  /\ config.policy = FIFO
  /\ Len(results) = 2
  /\ results[1].program = Callback
  /\ results[2].program = Callback
  /\ config.mapping = FullyAssociative
  /\ results[2].hits >= 1
  /\ results[2].misses > config.cache_size
  /\ config.cache_size = 2

(***************************************************************************)
(* C14  A result that run has returned is not changed by anything done to  *)
(* the engine later, a second call of run included: the lists it holds     *)
(* (the log; the history and the cache) stay as they were returned.        *)
(* (SpecRerun)                                                             *)
(***************************************************************************)
C14_ResultImmutable ==
  \A k \in 1..Len(results) :
    /\ results[k].program = Batch => results[k].log = access_log
    /\ results[k].program = Callback =>
         results[k].history = history /\ results[k].cache = cache

(***************************************************************************)
(* C17  For the same cache size, mapping (Set-Associative with two sets),  *)
(* fixed LRU or FIFO policy and addresses, cache_simulator.py and os.py    *)
(* return the same trace and the same counters and end with the same       *)
(* members in every set.  (SpecTwin)                                       *)
(***************************************************************************)
C17_EnginesAgree ==
  config.policy \in {LRU, FIFO} =>
    \A j, k \in 1..Len(results) :
      (results[j].program # results[k].program /\ results[j].sequence = results[k].sequence) =>
        /\ results[j].trace = results[k].trace
        /\ results[j].hits = results[k].hits
        /\ results[j].misses = results[k].misses
        /\ results[j].members = results[k].members

(***************************************************************************)
(* C15  A sequence that contains a negative address is rejected before the *)
(* run starts: the engine processes no address of it, and no counter, log  *)
(* or history entry is produced for it.                                    *)
(***************************************************************************)
NegativeInput == \E i \in 1..Len(script) : script[i] < 0

C15_NegativeRejected ==
  NegativeInput =>
    /\ opLog = <<>>
    /\ hits = 0
    /\ misses = 0
    /\ access_log = <<>>
    /\ history = <<>>

(***************************************************************************)
(* C16  In every state and for every set, the FIFO arrival queue and the   *)
(* LRU recency list kept for the set hold exactly the addresses that are   *)
(* members of the set; only the orders differ.  (os.py keeps the two lists *)
(* for Fully-Associative and per set for Set-Associative; the order of     *)
(* CacheSet.blocks is the only list cache_simulator.py keeps.)             *)
(***************************************************************************)
C16_TrackersMatchMembers ==
  (program = Callback /\ status \in {"Running", "Completed"}) =>
    /\ config.mapping = FullyAssociative =>
         /\ Range(fifo_queue) = Range(cache)
         /\ Range(lru_stack) = Range(cache)
    /\ config.mapping = SetAssociative =>
         \A i \in 1..Len(cache) :
           /\ Range(fifo_queues[i]) = Range(cache[i])
           /\ Range(lru_stacks[i]) = Range(cache[i])

(***************************************************************************)
(* C18  A HIT leaves the members of every set as they were.  Under FIFO    *)
(* and Random it changes nothing but the hit counter and the trace: no     *)
(* order of members and no tracker list.  Under LRU it changes, besides    *)
(* those two, only the order of the members of the accessed set.           *)
(***************************************************************************)
HitStep == hits' = hits + 1

\* The 0-based index of the set the step has accessed
AccessedSet == opLog'[Len(opLog')].set

C18_HitFrame ==
  [][HitStep =>
       /\ misses' = misses
       /\ status' = status
       /\ failure' = failure
       /\ Len(access_log') + Len(history') = Len(access_log) + Len(history) + 1
       /\ IsPrefix(access_log, access_log')
       /\ IsPrefix(history, history')
       /\ cache' = cache
       /\ <<fifo_queue, lru_stack, fifo_queues, lru_stacks>>' =
            <<fifo_queue, lru_stack, fifo_queues, lru_stacks>>
       /\ Len(sets') = Len(sets)
       /\ \A i \in 1..Len(sets) :
            /\ Range(sets'[i].blocks) = Range(sets[i].blocks)
            /\ Len(sets'[i].blocks) = Len(sets[i].blocks)
            /\ sets'[i].associativity = sets[i].associativity
            /\ (config.policy # LRU \/ i - 1 # AccessedSet) => sets'[i] = sets[i]
  ]_vars

\* A HIT of cache_simulator.py under LRU has just moved the address to the end
\* of a set with another member
C18_Witness ==
  /\ program = Batch
  /\ config.policy = LRU
  /\ opLog # <<>>
  /\ opLog[Len(opLog)].outcome = "HIT"
  /\ Len(opLog[Len(opLog)].before) >= 2
  /\ Members(opLog[Len(opLog)].set) # opLog[Len(opLog)].before
  /\ Range(Members(opLog[Len(opLog)].set)) = Range(opLog[Len(opLog)].before)

(***************************************************************************)
(* C19  On a MISS of address a, whatever the policy: if the mapped set was *)
(* full exactly one of its members is removed, otherwise none is; a is a   *)
(* member of the mapped set after the step; the members of every other set *)
(* are unchanged.  (Valid configurations, sets of associativity 1 or more, *)
(* steps that do not fail.)                                                *)
(***************************************************************************)
MissStep == misses' = misses + 1 /\ status' = "Running"

\* The members of set i before the step (os.py creates the Direct slots at the
\* first access)
MembersBefore(i) == IF i \in SetIndices THEN Range(Members(i)) ELSE {}

C19_MissEffect ==
  [][(ValidConfig /\ MissStep) =>
       \A i \in SetIndices' :
         IF i = opLog'[Len(opLog')].set
         THEN Associativity(i) >= 1 =>
                /\ opLog'[Len(opLog')].addr \in Range(Members(i))'
                /\ Cardinality(MembersBefore(i) \ Range(Members(i))') =
                     IF opLog'[Len(opLog')].full THEN 1 ELSE 0
         ELSE Range(Members(i))' = MembersBefore(i)
  ]_vars

(***************************************************************************)
(* C20  In every state, an address that is resident in set i (or Direct    *)
(* slot i) is one the mapping sends there: i = a mod cache_size for        *)
(* Direct, i = a mod the number of sets for Set-Associative, i = 0 for     *)
(* Fully-Associative.                                                      *)
(***************************************************************************)
C20_ResidentInMappedSet ==
  status \in {"Running", "Completed", "Failed"} =>
    \A i \in SetIndices :
      \A a \in Range(Members(i)) :
        i = IF config.mapping = Direct THEN a % config.cache_size
            ELSE IF config.mapping = SetAssociative
            THEN a % (IF program = Batch THEN Len(sets) ELSE Len(cache))
            ELSE 0

\* Two sets of a Set-Associative cache both hold addresses, and one has evicted
C20_Witness ==
  /\ config.mapping = SetAssociative
  /\ status = "Completed"
  /\ Cardinality(SetIndices) = 2
  /\ \A i \in SetIndices : Members(i) # <<>>
  /\ Evictions # {}
====
